---- MODULE Spec2Model ----
(***************************************************************************)
(* Receipt-batch ingestion of the PayMeJunior mobile client.               *)
(*                                                                         *)
(*   mobile/services/api.ts        processReceipts, uriToBase64            *)
(*   mobile/app/(tabs)/index.tsx   pickImages, removeImage, handleProcess  *)
(*   mobile/stores/expenseStore    the zustand store (useExpenseStore)     *)
(*   mobile/app/(tabs)/summary.tsx summary, handleClearAll                 *)
(*   mobile/app/(tabs)/expenses.tsx refresh, handleDelete, the total bar   *)
(*   mobile/app/receipt/[id].tsx   handleSave, handleDelete                *)
(*   the multipart variant of processReceipts                              *)
(*                                                                         *)
(* JavaScript runs each piece of synchronous code to completion, so a step *)
(* of processReceipts is the code between two awaits.  Every call of a     *)
(* store mutator is a step of its own: zustand's set() publishes the new   *)
(* state to the store's subscribers synchronously, before the next         *)
(* statement of the caller runs.  No other handler runs between two such   *)
(* steps of one synchronous run (see Quiescent).                           *)
(***************************************************************************)
EXTENDS Integers, Sequences, FiniteSets, TLC

VARIABLES
    \* the zustand store (initialState)
    currentReport, expenses, isProcessing, processingProgress, selectedImages,
    \* the upload screen: position of handleProcess, the alert on screen
    hpPc, alert,
    \* the frame of the running processReceipts invocation
    prPc, images, i, response, result, error,
    \* the asynchronous operations of the invocation that have not completed
    pending,
    \* the Remote Extraction Service: remoteReports[r] = rows of report r
    remoteReports,
    \* history of the running invocation
    encodes, calls, outcomes, preBatch,
    \* number of images submitted so far, over all invocations
    uploads,
    \* the Remote Extraction Service: remoteExpenses.rows[r] = the rows
    \* report r holds now, in the order of their creation; they are kept only
    \* in the specifications that read them back (remoteExpenses.kept)
    remoteExpenses,
    \* the expenses screen: the running refresh, the selected category filter
    refresh, filter,
    \* the running delete or save handler (expenses list, receipt detail)
    edit,
    \* the multipart variant of processReceipts: the form under construction
    formData

vars == <<currentReport, expenses, isProcessing, processingProgress,
          selectedImages, hpPc, alert, prPc, images, i, response, result,
          error, pending, remoteReports, encodes, calls, outcomes, preBatch,
          uploads, remoteExpenses, refresh, filter, edit, formData>>

remoteVars == <<remoteReports, remoteExpenses>>
screenVars == <<refresh, filter, edit, formData>>

storeVars == <<currentReport, expenses, isProcessing, processingProgress,
               selectedImages>>
frameVars == <<prPc, images, i, response, result, error>>
histVars == <<encodes, calls, outcomes>>

----------------------------------------------------------------------------
(* Bounds *)

\* images the picker can return in one selection
MaxImages == 3
\* images submitted in one behaviour, over all invocations
MaxUploads == 4
\* length of the expense lists the store's functions and the screens'
\* computations are applied to
MaxExpenses == 3
\* images submitted in one behaviour that also runs the handlers of the
\* expenses, summary and receipt screens
MaxScreenUploads == 2

----------------------------------------------------------------------------
(* Values *)

Null == [null |-> TRUE]
NoAlert == [title |-> "none"]

\* asset.fileName of the k-th picked asset (index.tsx:49)
FileName(img) == CASE img = 1 -> "A.jpg"
                   [] img = 2 -> "B.jpg"
                   [] img = 3 -> "C.jpg"
                   [] OTHER -> "D.jpg"

\* useState("Expense Report"), never changed by the screen
reportName == "Expense Report"

\* filename: image.fileName || "receipt.jpg"
RequestFilename(img) ==
    IF FileName(img) = "" THEN "receipt.jpg" ELSE FileName(img)

\* non-2xx statuses of the service
ErrorStatuses == {422, 500}

initialState ==
    [ currentReport |-> Null,
      expenses |-> <<>>,
      isProcessing |-> FALSE,
      processingProgress |-> [current |-> 0, total |-> 0],
      selectedImages |-> <<>> ]

----------------------------------------------------------------------------
(* Remote Extraction Service *)

\* the Expense row the service creates for an image in report r
NewExpense(r, n, img) ==
    [ id |-> <<r, n>>, report_id |-> r, receipt_path |-> RequestFilename(img) ]

\* body of a 2xx answer of /receipts/process-base64 for one image: the new
\* report with the extracted expense, or with the image reported as failed
BatchBody(r, img, extracted) ==
    IF extracted
    THEN [ report_id |-> r, report_name |-> reportName,
           expenses |-> << NewExpense(r, 1, img) >>,
           failed_receipts |-> <<>>,
           summary |-> [total |-> 1, successful |-> 1, failed |-> 0] ]
    ELSE [ report_id |-> r, report_name |-> reportName,
           expenses |-> <<>>,
           failed_receipts |-> << [ filename |-> RequestFilename(img),
                                    error |-> "Could not extract expense data" ] >>,
           summary |-> [total |-> 1, successful |-> 0, failed |-> 1] ]

\* body of a 2xx answer of /receipts/process-base64-single
SingleBody(r, n, img) == [ expense |-> NewExpense(r, n, img) ]

\* the service's tables after a new report was created with rows
RowsOfNewReport(rem, rows) ==
    IF rem.kept THEN [rem EXCEPT !.rows = Append(@, rows)] ELSE rem

\* the service's tables after row e was added to report r
RowAdded(rem, r, e) ==
    IF rem.kept THEN [rem EXCEPT !.rows[r] = Append(@, e)] ELSE rem

----------------------------------------------------------------------------
(* Errors *)

Err(name, message) == [name |-> name, message |-> message]

\* String(error)
String(e) == e.name \o ": " \o e.message

\* the rejections of uriToBase64 (api.ts:31, 34, 37)
UriRejections == { Err("Error", "Failed to extract base64 data"),
                   Err("Error", "FileReader error"),
                   Err("Error", "XHR error loading image") }

\* fetch rejects on a transport error; response.json() on an undecodable body
FetchRejection == Err("TypeError", "Network request failed")
JsonRejection == Err("SyntaxError", "JSON Parse error")

\* new Error(`Failed to process receipt: ${response.status}`)
StatusError(status) ==
    Err("Error", "Failed to process receipt: " \o ToString(status))

----------------------------------------------------------------------------
(* processReceipts: the bookkeeping of the loop body (api.ts:99-117) *)

\* variant: the expense is pushed but summary.successful is not incremented
RecordSuccess_NoCount(res, e) ==
    [res EXCEPT !.expenses = Append(@, e)]

\* variant: the expense is put in front (unshift instead of push)
RecordSuccess_Unshift(res, e) ==
    [res EXCEPT !.expenses = <<e>> \o @,
                !.summary.successful = @ + 1]

\* result.expenses.push(data.expense); result.summary.successful++
RecordSuccess(res, e) ==
    [res EXCEPT !.expenses = Append(@, e),
                !.summary.successful = @ + 1]

\* variant: the failure is pushed but summary.failed is not incremented
RecordFailure_NoCount(res, img, err) ==
    [res EXCEPT !.failed_receipts =
                    Append(@, [filename |-> FileName(img), error |-> err])]

\* variant: the entry carries the request's fallback name, not img.fileName
RecordFailure_Fallback(res, img, err) ==
    [res EXCEPT !.failed_receipts =
                    Append(@, [filename |-> "receipt.jpg", error |-> err]),
                !.summary.failed = @ + 1]

\* result.failed_receipts.push({filename: img.fileName, error});
\* result.summary.failed++
RecordFailure(res, img, err) ==
    [res EXCEPT !.failed_receipts =
                    Append(@, [filename |-> FileName(img), error |-> err]),
                !.summary.failed = @ + 1]

\* variant: summary.total is left alone
BumpTotal_Skip(res) == res

\* result.summary.total++
BumpTotal(res) == [res EXCEPT !.summary.total = @ + 1]

\* variant: the index does not advance, the same image is taken again
NextIndex_Stay(k) == k

\* i++ (positions are 1-based here: position k is images[k-1] of the code)
NextIndex(k) == k + 1

\* variant: the loop stops one image early (i < images.length - 1)
LoopPc_OffByOne(k, imgs) == IF k < Len(imgs) THEN "encNext" ELSE "resolved"

\* for (...; i < images.length; ...): run the body for position k, or return
LoopPc(k, imgs) == IF k <= Len(imgs) THEN "encNext" ELSE "resolved"

\* variant: the first image is fault-isolated like the others
AfterFirstError_Isolated(k, imgs) == LoopPc(NextIndex(k), imgs)

\* where control goes when the first image fails: nothing catches, the
\* promise of processReceipts rejects
AfterFirstError(k, imgs) == "rejected"

\* variant: the catch block rethrows
AfterImageError_Stall(k, imgs) == "stalled"

\* variant: the loop's exception propagates and the batch is rejected
AfterImageError_Rethrow(k, imgs) == "rejected"

\* where control goes when image k > 1 fails: the catch block (or the else
\* branch) records the failure and falls through to the loop's next test
AfterImageError(k, imgs) == LoopPc(NextIndex(k), imgs)

\* variant: the operation is started but not awaited
AwaitDone_NoWait(pend, op) == pend

\* await: the awaited operation op has completed and is no longer pending
AwaitDone(pend, op) == pend \ {op}

\* the body of the process-base64-single request (api.ts:88-96)
AppendRequest_Stale(res, img) ==
    [ kind |-> "append", img |-> img, filename |-> RequestFilename(img),
      report_id |-> 1 ]

\* the body of the process-base64-single request (api.ts:88-96)
AppendRequest(res, img) ==
    [ kind |-> "append", img |-> img, filename |-> RequestFilename(img),
      report_id |-> res.report_id ]

EncodeOp(img) == [op |-> "encode", img |-> img]
FetchOp(img) == [op |-> "fetch", img |-> img]
BodyOp(img) == [op |-> "body", img |-> img]

Outcome(img, kind, e) == [img |-> img, kind |-> kind, expense |-> e]

\* control moves to pc at position k; entering the loop body starts the
\* encoding of images[k] (api.ts:80-82)
Goto(pc, k, pend) ==
    /\ prPc' = pc
    /\ i' = k
    /\ IF pc = "encNext"
       THEN /\ pending' = pend \cup {EncodeOp(images[k])}
            /\ encodes' = Append(encodes, images[k])
       ELSE /\ pending' = pend
            /\ encodes' = encodes

\* the first image failed with e (api.ts:53, 55, 73, 76)
FailFirst(e, kind, pend) ==
    /\ outcomes' = Append(outcomes, Outcome(images[1], kind, Null))
    /\ error' = IF AfterFirstError(1, images) = "rejected" THEN e ELSE error
    /\ Goto(AfterFirstError(1, images), NextIndex(1), pend)
    /\ UNCHANGED <<result, calls>>

\* image i failed with the error text err (api.ts:103-117)
FailImage(err, kind, pend) ==
    /\ result' = BumpTotal(RecordFailure(result, images[i], err))
    /\ outcomes' = Append(outcomes, Outcome(images[i], kind, Null))
    /\ Goto(AfterImageError(i, images), NextIndex(i), pend)
    /\ UNCHANGED <<error, calls>>

----------------------------------------------------------------------------
(* The event loop *)

\* no synchronous run is in progress: the event loop is free to run another
\* handler or the continuation of a completed await
Quiescent == hpPc \in {"idle", "await"}

\* the user can touch the screen: no handler is running and no alert is up
\* (Alert.alert opens a modal dialog of the platform)
Touchable == Quiescent /\ alert = NoAlert

\* the caller of processReceipts is suspended at its await: handleProcess, or
\* another caller of the exported function
Running == hpPc \in {"await", "direct"}

\* selectedImages.length === 0
NoImages_Never(sel) == FALSE

\* selectedImages.length === 0
NoImages(sel) == Len(sel) = 0

ImageSeq(n) == [k \in 1..n |-> k]

\* newImages.splice(index, 1)
Splice(s, index) == [k \in 1..(Len(s) - 1) |-> IF k < index THEN s[k] ELSE s[k + 1]]

----------------------------------------------------------------------------
(* index.tsx: pickImages, removeImage *)

\* the picker returns n assets; the select button is rendered only while
\* isProcessing is false
pickImages ==
    /\ Touchable
    /\ ~isProcessing
    /\ \E n \in 1..MaxImages : selectedImages' = ImageSeq(n)
    /\ UNCHANGED <<currentReport, expenses, isProcessing, processingProgress,
                   hpPc, alert, frameVars, pending, remoteVars, histVars,
                   preBatch, uploads>>
    /\ UNCHANGED screenVars

\* the thumbnails and their remove buttons are rendered whenever
\* selectedImages is non-empty, also during processing
removeImage ==
    /\ Touchable
    /\ \E index \in 1..Len(selectedImages) :
          selectedImages' = Splice(selectedImages, index)
    /\ UNCHANGED <<currentReport, expenses, isProcessing, processingProgress,
                   hpPc, alert, frameVars, pending, remoteVars, histVars,
                   preBatch, uploads>>
    /\ UNCHANGED screenVars

\* the user closes the alert on screen
dismissAlert ==
    /\ Quiescent
    /\ alert # NoAlert
    /\ alert' = NoAlert
    /\ UNCHANGED <<storeVars, hpPc, frameVars, pending, remoteVars,
                   histVars, preBatch, uploads>>
    /\ UNCHANGED screenVars

----------------------------------------------------------------------------
(* api.ts: processReceipts, one action per await *)

\* const image = images[0]; const base64 = await uriToBase64(image.uri)
\* (image.uri throws a TypeError when images is empty)
processReceipts(imgs) ==
    /\ images' = imgs
    /\ response' = Null
    /\ result' = Null
    /\ calls' = <<>>
    /\ outcomes' = <<>>
    /\ IF imgs = <<>>
       THEN /\ prPc' = "rejected"
            /\ error' = Err("TypeError", "undefined is not an object")
            /\ i' = 1
            /\ pending' = {}
            /\ encodes' = <<>>
       ELSE /\ prPc' = "encFirst"
            /\ error' = Null
            /\ i' = 1
            /\ pending' = {EncodeOp(imgs[1])}
            /\ encodes' = <<imgs[1]>>

\* uriToBase64 of the first image settles; on success fetch(process-base64)
\* is issued
encFirstDone ==
    /\ Running /\ prPc = "encFirst"
    /\ \/ /\ prPc' = "fetchFirst"
          /\ pending' = AwaitDone(pending, EncodeOp(images[1])) \cup {FetchOp(images[1])}
          /\ calls' = Append(calls, [kind |-> "batch", img |-> images[1],
                                     filename |-> RequestFilename(images[1]),
                                     report_name |-> reportName])
          /\ UNCHANGED <<images, i, response, result, error, encodes, outcomes>>
       \/ \E e \in UriRejections :
             /\ FailFirst(e, "encodeErr", AwaitDone(pending, EncodeOp(images[1])))
             /\ UNCHANGED <<images, response>>
    /\ UNCHANGED <<storeVars, hpPc, alert, remoteVars, preBatch, uploads>>
    /\ UNCHANGED screenVars

\* the batch-creation fetch settles: transport error, non-2xx, or 2xx (the
\* service has created report r)
fetchFirstDone ==
    /\ Running /\ prPc = "fetchFirst"
    /\ LET done == AwaitDone(pending, FetchOp(images[1]))
           r == Len(remoteReports) + 1
       IN \/ /\ FailFirst(FetchRejection, "transportErr", done)
             /\ UNCHANGED <<images, response, remoteVars>>
          \/ \E status \in ErrorStatuses :
                /\ response' = [ok |-> FALSE, status |-> status, body |-> Null]
                /\ prPc' = "textFirst"
                /\ pending' = done \cup {BodyOp(images[1])}
                /\ UNCHANGED <<images, i, result, error, encodes, calls,
                               outcomes, remoteVars>>
          \/ \E extracted \in BOOLEAN :
                /\ response' = [ok |-> TRUE, status |-> 200,
                                body |-> BatchBody(r, images[1], extracted)]
                /\ remoteReports' = Append(remoteReports,
                                           IF extracted THEN 1 ELSE 0)
                /\ remoteExpenses' =
                      RowsOfNewReport(remoteExpenses,
                                      BatchBody(r, images[1], extracted).expenses)
                /\ prPc' = "jsonFirst"
                /\ pending' = done \cup {BodyOp(images[1])}
                /\ UNCHANGED <<images, i, result, error, encodes, calls, outcomes>>
    /\ UNCHANGED <<storeVars, hpPc, alert, preBatch, uploads>>
    /\ UNCHANGED screenVars

\* if (!response.ok) { await response.text(); throw new Error(...) }
\* (a rejection of response.text() propagates in place of the status error)
textFirstDone ==
    /\ Running /\ prPc = "textFirst"
    /\ \E e \in {StatusError(response.status), FetchRejection} :
          FailFirst(e, "non2xx", AwaitDone(pending, BodyOp(images[1])))
    /\ UNCHANGED <<images, response>>
    /\ UNCHANGED <<storeVars, hpPc, alert, remoteVars, preBatch, uploads>>
    /\ UNCHANGED screenVars

\* const result = await response.json(); then the loop is entered
jsonFirstDone ==
    /\ Running /\ prPc = "jsonFirst"
    /\ LET done == AwaitDone(pending, BodyOp(images[1]))
           body == response.body
       IN \/ /\ result' = body
             /\ outcomes' = Append(outcomes,
                   IF body.expenses # <<>>
                   THEN Outcome(images[1], "ok", body.expenses[1])
                   ELSE Outcome(images[1], "failedBody", Null))
             /\ Goto(LoopPc(NextIndex(1), images), NextIndex(1), done)
             /\ UNCHANGED <<error, calls>>
          \/ FailFirst(JsonRejection, "decodeErr", done)
    /\ UNCHANGED <<images, response>>
    /\ UNCHANGED <<storeVars, hpPc, alert, remoteVars, preBatch, uploads>>
    /\ UNCHANGED screenVars

\* uriToBase64 of image i settles; on success fetch(process-base64-single)
\* is issued with the report_id of this invocation's result
encNextDone ==
    /\ Running /\ prPc = "encNext"
    /\ LET done == AwaitDone(pending, EncodeOp(images[i]))
       IN \/ /\ prPc' = "fetchNext"
             /\ pending' = done \cup {FetchOp(images[i])}
             /\ calls' = Append(calls, AppendRequest(result, images[i]))
             /\ UNCHANGED <<i, result, error, encodes, outcomes>>
          \/ \E e \in UriRejections : FailImage(String(e), "encodeErr", done)
    /\ UNCHANGED <<images, response>>
    /\ UNCHANGED <<storeVars, hpPc, alert, remoteVars, preBatch, uploads>>
    /\ UNCHANGED screenVars

\* the single-append fetch settles: transport error (caught), non-2xx (else
\* branch), or 2xx (the service has added a row to the report)
fetchNextDone ==
    /\ Running /\ prPc = "fetchNext"
    /\ LET done == AwaitDone(pending, FetchOp(images[i]))
           r == calls[Len(calls)].report_id
       IN \/ /\ FailImage(String(FetchRejection), "transportErr", done)
             /\ UNCHANGED <<response, remoteVars>>
          \/ \E status \in ErrorStatuses :
                /\ response' = [ok |-> FALSE, status |-> status, body |-> Null]
                /\ FailImage("Processing failed", "non2xx", done)
                /\ UNCHANGED remoteVars
          \/ /\ r \in 1..Len(remoteReports)
             /\ response' = [ok |-> TRUE, status |-> 200,
                             body |-> SingleBody(r, remoteReports[r] + 1, images[i])]
             /\ remoteReports' = [remoteReports EXCEPT ![r] = @ + 1]
             /\ remoteExpenses' =
                   RowAdded(remoteExpenses, r,
                            NewExpense(r, remoteReports[r] + 1, images[i]))
             /\ prPc' = "jsonNext"
             /\ pending' = done \cup {BodyOp(images[i])}
             /\ UNCHANGED <<i, result, error, encodes, calls, outcomes>>
    /\ UNCHANGED images
    /\ UNCHANGED <<storeVars, hpPc, alert, preBatch, uploads>>
    /\ UNCHANGED screenVars

\* const data = await resp.json(); push, successful++, total++, next image
jsonNextDone ==
    /\ Running /\ prPc = "jsonNext"
    /\ LET done == AwaitDone(pending, BodyOp(images[i]))
           data == response.body
       IN \/ /\ result' = BumpTotal(RecordSuccess(result, data.expense))
             /\ outcomes' = Append(outcomes, Outcome(images[i], "ok", data.expense))
             /\ Goto(LoopPc(NextIndex(i), images), NextIndex(i), done)
             /\ UNCHANGED <<error, calls>>
          \/ FailImage(String(JsonRejection), "decodeErr", done)
    /\ UNCHANGED <<images, response>>
    /\ UNCHANGED <<storeVars, hpPc, alert, remoteVars, preBatch, uploads>>
    /\ UNCHANGED screenVars

----------------------------------------------------------------------------
(* index.tsx: handleProcess *)

\* if (selectedImages.length === 0) { Alert.alert("No Images", ...); return }
handleProcessEmpty ==
    /\ Touchable /\ ~isProcessing
    /\ NoImages(selectedImages)
    /\ alert' = [title |-> "No Images",
                 message |-> "Please select receipt images first"]
    /\ UNCHANGED <<storeVars, hpPc, frameVars, pending, remoteVars,
                   histVars, preBatch, uploads>>
    /\ UNCHANGED screenVars

\* setProcessing(true); the process button is rendered only while
\* isProcessing is false and selectedImages is non-empty.  One run of
\* handleProcess is followed at a time.
handleProcessStart ==
    /\ Touchable /\ ~isProcessing
    /\ hpPc = "idle"
    /\ ~NoImages(selectedImages)
    /\ uploads + Len(selectedImages) <= MaxUploads
    /\ uploads' = uploads + Len(selectedImages)
    /\ isProcessing' = TRUE
    /\ preBatch' = [ currentReport |-> currentReport,
                     expenses |-> expenses,
                     isProcessing |-> isProcessing,
                     processingProgress |-> processingProgress,
                     selectedImages |-> selectedImages,
                     reports |-> remoteReports ]
    /\ hpPc' = "setProgress"
    /\ UNCHANGED <<currentReport, expenses, processingProgress, selectedImages,
                   alert, frameVars, pending, remoteVars, histVars>>
    /\ UNCHANGED screenVars

\* setProgress(0, selectedImages.length)
handleProcessProgress ==
    /\ hpPc = "setProgress"
    /\ processingProgress' = [current |-> 0, total |-> Len(selectedImages)]
    /\ hpPc' = "call"
    /\ UNCHANGED <<currentReport, expenses, isProcessing, selectedImages,
                   alert, frameVars, pending, remoteVars, histVars,
                   preBatch, uploads>>
    /\ UNCHANGED screenVars

\* const result = await processReceipts(selectedImages, reportName)
handleProcessCall ==
    /\ hpPc = "call"
    /\ processReceipts(selectedImages)
    /\ hpPc' = "await"
    /\ UNCHANGED <<storeVars, alert, remoteVars, preBatch, uploads>>
    /\ UNCHANGED screenVars

\* variant: total_expenses is the number of receipts of the batch
ReportOf_Summary(res) ==
    [ id |-> res.report_id, name |-> res.report_name,
      total_expenses |-> res.summary.total ]

\* the report handleProcess builds from the result (created_at is the
\* wall-clock time and is not modelled)
ReportOf(res) ==
    [ id |-> res.report_id, name |-> res.report_name,
      total_expenses |-> Len(res.expenses) ]

\* the continuation after `await processReceipts(...)` runs once the promise
\* is fulfilled
Resolved_Early(pc) == pc \in {"encNext", "fetchNext", "jsonNext", "resolved"}

\* the continuation after `await processReceipts(...)` runs once the promise
\* is fulfilled
Resolved(pc) == pc = "resolved"

\* setCurrentReport({...})
handleProcessSetReport ==
    /\ hpPc = "await" /\ Resolved(prPc)
    /\ currentReport' = ReportOf(result)
    /\ hpPc' = "setExpenses"
    /\ UNCHANGED <<expenses, isProcessing, processingProgress, selectedImages,
                   alert, frameVars, pending, remoteVars, histVars,
                   preBatch, uploads>>
    /\ UNCHANGED screenVars

\* setExpenses(result.expenses)
handleProcessSetExpenses ==
    /\ hpPc = "setExpenses"
    /\ expenses' = result.expenses
    /\ hpPc' = "clearSelectedImages"
    /\ UNCHANGED <<currentReport, isProcessing, processingProgress,
                   selectedImages, alert, frameVars, pending, remoteVars,
                   histVars, preBatch, uploads>>
    /\ UNCHANGED screenVars

\* clearSelectedImages()
handleProcessClear ==
    /\ hpPc = "clearSelectedImages"
    /\ selectedImages' = <<>>
    /\ hpPc' = "alert"
    /\ UNCHANGED <<currentReport, expenses, isProcessing, processingProgress,
                   alert, frameVars, pending, remoteVars, histVars,
                   preBatch, uploads>>
    /\ UNCHANGED screenVars

\* one line of failedDetails: `${f.filename}: ${f.error}`
DetailLine(f) == f.filename \o ": " \o f.error

\* the alert without the details
ResultAlert_NoDetails(res) ==
    IF Len(res.failed_receipts) > 0
    THEN [ title |-> "Processing Complete",
           successful |-> res.summary.successful,
           total |-> res.summary.total,
           failed |-> res.summary.failed,
           details |-> <<>> ]
    ELSE [ title |-> "Success!",
           successful |-> res.summary.successful ]

\* the alert shown for a result: the numbers interpolated into the message,
\* and the lines of failedDetails (the message joins them with "\n")
ResultAlert(res) ==
    IF Len(res.failed_receipts) > 0
    THEN [ title |-> "Processing Complete",
           successful |-> res.summary.successful,
           total |-> res.summary.total,
           failed |-> res.summary.failed,
           details |-> [k \in DOMAIN res.failed_receipts |->
                           DetailLine(res.failed_receipts[k])] ]
    ELSE [ title |-> "Success!",
           successful |-> res.summary.successful ]

\* Alert.alert("Processing Complete", ...) or Alert.alert("Success!", ...)
handleProcessAlert ==
    /\ hpPc = "alert"
    /\ alert' = ResultAlert(result)
    /\ hpPc' = "finally"
    /\ UNCHANGED <<storeVars, frameVars, pending, remoteVars, histVars,
                   preBatch, uploads>>
    /\ UNCHANGED screenVars

\* catch (error) { Alert.alert("Error", error.message || "Failed to ...") }
handleProcessCatch ==
    /\ hpPc = "await" /\ prPc = "rejected"
    /\ alert' = [ title |-> "Error",
                  message |-> IF error.message = ""
                              THEN "Failed to process receipts. Please try again."
                              ELSE error.message ]
    /\ hpPc' = "finally"
    /\ UNCHANGED <<storeVars, frameVars, pending, remoteVars, histVars,
                   preBatch, uploads>>
    /\ UNCHANGED screenVars

\* finally { setProcessing(false) }; the invocation's frame is released
handleProcessFinally ==
    /\ hpPc = "finally"
    /\ isProcessing' = FALSE
    /\ hpPc' = "idle"
    /\ prPc' = "idle" /\ images' = <<>> /\ i' = 1
    /\ response' = Null /\ result' = Null /\ error' = Null
    /\ pending' = {}
    /\ encodes' = <<>> /\ calls' = <<>> /\ outcomes' = <<>>
    /\ preBatch' = Null
    /\ UNCHANGED <<currentReport, expenses, processingProgress, selectedImages,
                   alert, remoteVars, uploads>>
    /\ UNCHANGED screenVars

----------------------------------------------------------------------------
InitIdle ==
    /\ isProcessing = initialState.isProcessing
    /\ processingProgress = initialState.processingProgress
    /\ selectedImages = initialState.selectedImages
    /\ hpPc = "idle"
    /\ alert = NoAlert
    /\ prPc = "idle" /\ images = <<>> /\ i = 1
    /\ response = Null /\ result = Null /\ error = Null
    /\ pending = {}
    /\ remoteReports = <<>>
    /\ encodes = <<>> /\ calls = <<>> /\ outcomes = <<>>
    /\ preBatch = Null
    /\ refresh = Null
    /\ edit = Null
    /\ formData = Null

InitApp ==
    /\ currentReport = initialState.currentReport
    /\ expenses = initialState.expenses
    /\ filter = Null
    /\ InitIdle

Init ==
    /\ InitApp
    /\ uploads = 0
    /\ remoteExpenses = [kept |-> FALSE, rows |-> <<>>]

\* the same with the rows of the remote store kept, for the specifications
\* that run the handlers of the other screens next to handleProcess; their
\* behaviours submit MaxScreenUploads images at most
InitRemote ==
    /\ InitApp
    /\ uploads = MaxUploads - MaxScreenUploads
    /\ remoteExpenses = [kept |-> TRUE, rows |-> <<>>]

Next ==
    \/ pickImages
    \/ removeImage
    \/ dismissAlert
    \/ handleProcessEmpty
    \/ handleProcessStart
    \/ handleProcessProgress
    \/ handleProcessCall
    \/ encFirstDone
    \/ fetchFirstDone
    \/ textFirstDone
    \/ jsonFirstDone
    \/ encNextDone
    \/ fetchNextDone
    \/ jsonNextDone
    \/ handleProcessSetReport
    \/ handleProcessSetExpenses
    \/ handleProcessClear
    \/ handleProcessAlert
    \/ handleProcessCatch
    \/ handleProcessFinally

Spec == Init /\ [][Next]_vars

\* every encoding and every remote call that has been started eventually
\* completes, with success or failure: the continuation of each await of
\* processReceipts eventually runs
FairSpec ==
    /\ Spec
    /\ WF_vars(encFirstDone) /\ WF_vars(fetchFirstDone)
    /\ WF_vars(textFirstDone) /\ WF_vars(jsonFirstDone)
    /\ WF_vars(encNextDone) /\ WF_vars(fetchNextDone)
    /\ WF_vars(jsonNextDone)

----------------------------------------------------------------------------
(* part_003: reset; summary.tsx: handleClearAll *)

\* the data fields of the store as one record
StoreRec ==
    [ currentReport |-> currentReport,
      expenses |-> expenses,
      isProcessing |-> isProcessing,
      processingProgress |-> processingProgress,
      selectedImages |-> selectedImages ]

\* set(partial) of zustand: the fields of partial replace those of the state
Merge(s, partial) ==
    [k \in DOMAIN s |-> IF k \in DOMAIN partial THEN partial[k] ELSE s[k]]

\* variant: only the report and its expenses are cleared
Reset_Partial(s) == Merge(s, [currentReport |-> Null, expenses |-> <<>>])

\* reset: () => set(initialState)
Reset(s) == Merge(s, initialState)

\* the Clear All button of the summary screen, which is rendered only when
\* expenses is non-empty: the confirmation dialog opens
handleClearAll ==
    /\ Touchable
    /\ expenses # <<>>
    /\ alert' = [title |-> "Clear All Data",
                 message |-> "Are you sure you want to clear all expenses? This cannot be undone."]
    /\ UNCHANGED <<storeVars, hpPc, frameVars, pending, remoteVars,
                   histVars, preBatch, uploads>>
    /\ UNCHANGED screenVars

\* "Clear All" is pressed in the dialog: reset(); Alert.alert("Cleared", ...)
\* ("Cancel" closes the dialog: dismissAlert)
clearAllConfirmed ==
    /\ Quiescent
    /\ alert.title = "Clear All Data"
    /\ LET s == Reset(StoreRec)
       IN /\ currentReport' = s.currentReport
          /\ expenses' = s.expenses
          /\ isProcessing' = s.isProcessing
          /\ processingProgress' = s.processingProgress
          /\ selectedImages' = s.selectedImages
    /\ alert' = [title |-> "Cleared", message |-> "All data has been cleared"]
    /\ UNCHANGED <<hpPc, frameVars, pending, remoteVars, histVars,
                   preBatch, uploads>>
    /\ UNCHANGED screenVars

NextStore ==
    \/ Next
    \/ handleClearAll
    \/ clearAllConfirmed

SpecStore == Init /\ [][NextStore]_vars

----------------------------------------------------------------------------
(* expenses.tsx: refresh (pull-to-refresh); api.ts: getReportExpenses *)

\* body of a 2xx answer of GET /reports/{id}/expenses: the rows the report
\* holds when the service handles the request
ExpensesBody(rem, r) ==
    [ expenses |-> rem.rows[r], report_name |-> reportName ]

\* if (!currentReport) return; setRefreshing(true);
\* await getReportExpenses(currentReport.id): the request is issued for the
\* report that is current now
refreshStart ==
    /\ Touchable
    /\ refresh = Null
    /\ currentReport # Null
    /\ refresh' = [report_id |-> currentReport.id, pc |-> "fetch", data |-> Null]
    /\ UNCHANGED <<storeVars, hpPc, alert, frameVars, pending, remoteVars,
                   histVars, preBatch, uploads, filter, edit, formData>>

\* the fetch of getReportExpenses settles: a rejection or a non-2xx status
\* makes getReportExpenses throw (catch: console.error; finally:
\* setRefreshing(false)); a 2xx answer is handed to response.json()
refreshFetchDone ==
    /\ Quiescent
    /\ refresh # Null /\ refresh.pc = "fetch"
    /\ \/ refresh' = Null
       \/ refresh' = [refresh EXCEPT
                         !.pc = "json",
                         !.data = ExpensesBody(remoteExpenses, refresh.report_id)]
    /\ UNCHANGED <<storeVars, hpPc, alert, frameVars, pending, remoteVars,
                   histVars, preBatch, uploads, filter, edit, formData>>

\* response.json() settles: setExpenses(data.expenses), or the catch branch;
\* finally setRefreshing(false)
refreshJsonDone ==
    /\ Quiescent
    /\ refresh # Null /\ refresh.pc = "json"
    /\ \/ UNCHANGED expenses
       \/ expenses' = refresh.data.expenses
    /\ refresh' = Null
    /\ UNCHANGED <<currentReport, isProcessing, processingProgress,
                   selectedImages, hpPc, alert, frameVars, pending, remoteVars,
                   histVars, preBatch, uploads, filter, edit, formData>>

NextRefresh ==
    \/ NextStore
    \/ refreshStart
    \/ refreshFetchDone
    \/ refreshJsonDone

SpecRefresh == InitRemote /\ [][NextRefresh]_vars

----------------------------------------------------------------------------
(* api.ts: the exported processReceipts called by another caller than
   handleProcess, with any sequence of images, the empty one included *)

directCall ==
    /\ hpPc = "idle" /\ prPc = "idle"
    /\ \E imgs \in {<<>>} \cup {ImageSeq(n) : n \in 1..MaxImages} :
          /\ uploads + Len(imgs) <= MaxUploads
          /\ uploads' = uploads + Len(imgs)
          /\ processReceipts(imgs)
    /\ hpPc' = "direct"
    /\ UNCHANGED <<storeVars, alert, remoteVars, preBatch>>
    /\ UNCHANGED screenVars

\* the promise has settled and the caller's await returns or throws; the
\* invocation's frame is released
directReturn ==
    /\ hpPc = "direct" /\ prPc \in {"resolved", "rejected"}
    /\ hpPc' = "idle"
    /\ prPc' = "idle" /\ images' = <<>> /\ i' = 1
    /\ response' = Null /\ result' = Null /\ error' = Null
    /\ pending' = {}
    /\ encodes' = <<>> /\ calls' = <<>> /\ outcomes' = <<>>
    /\ UNCHANGED <<storeVars, alert, remoteVars, preBatch, uploads>>
    /\ UNCHANGED screenVars

NextDirect ==
    \/ Next
    \/ directCall
    \/ directReturn

SpecDirect == Init /\ [][NextDirect]_vars

----------------------------------------------------------------------------
(* part_002: processReceipts, the multipart variant: one request for the
   whole batch.  It runs in the frame variables of processReceipts; formData
   is the form under construction. *)

InfoOp(img) == [op |-> "info", img |-> img]
PostOp == [op |-> "post"]

\* { uri: image.uri, name: image.fileName, type: image.type }
FilePart(img) == [img |-> img, name |-> FileName(img)]

\* the body of the 2xx answer to /receipts/process for a request with these
\* file parts: report r with one expense per part
MultipartBody(r, files) ==
    [ report_id |-> r,
      report_name |-> reportName,
      expenses |-> [n \in DOMAIN files |-> NewExpense(r, n, files[n].img)],
      failed_receipts |-> <<>>,
      summary |-> [total |-> Len(files), successful |-> Len(files), failed |-> 0] ]

\* after the loop: formData.append("report_name", reportName); api.post(...)
MultipartPost(form) ==
    /\ formData' = [form EXCEPT !.report_name = reportName]
    /\ calls' = <<[kind |-> "multipart", files |-> form.files,
                   report_name |-> reportName]>>
    /\ prPc' = "mpPost"
    /\ pending' = {PostOp}

\* processReceipts(images) is called: new FormData(); the loop starts with
\* getInfoAsync of the first image, or is skipped when images is empty
mpCall ==
    /\ hpPc = "idle" /\ prPc = "idle"
    /\ Len(remoteReports) < MaxUploads
    /\ \E imgs \in {<<>>} \cup {ImageSeq(n) : n \in 1..MaxImages} :
          /\ uploads + Len(imgs) <= MaxUploads
          /\ uploads' = uploads + Len(imgs)
          /\ images' = imgs
          /\ IF imgs = <<>>
             THEN MultipartPost([files |-> <<>>, report_name |-> ""])
             ELSE /\ formData' = [files |-> <<>>, report_name |-> ""]
                  /\ calls' = <<>>
                  /\ prPc' = "mpInfo"
                  /\ pending' = {InfoOp(imgs[1])}
    /\ hpPc' = "direct"
    /\ i' = 1 /\ response' = Null /\ result' = Null /\ error' = Null
    /\ encodes' = <<>> /\ outcomes' = <<>>
    /\ UNCHANGED <<storeVars, alert, remoteVars, preBatch, refresh, filter,
                   edit>>

\* getInfoAsync(image.uri) settles: the file exists and is appended to the
\* form, or it does not exist and the loop goes on, or the call rejects
mpInfoDone ==
    /\ hpPc = "direct" /\ prPc = "mpInfo"
    /\ \/ \E exists \in BOOLEAN :
             LET form == IF exists
                         THEN [formData EXCEPT
                                  !.files = Append(@, FilePart(images[i]))]
                         ELSE formData
             IN /\ i' = i + 1
                /\ IF i < Len(images)
                   THEN /\ formData' = form
                        /\ pending' = {InfoOp(images[i + 1])}
                        /\ UNCHANGED <<prPc, calls>>
                   ELSE MultipartPost(form)
                /\ UNCHANGED error
       \/ /\ prPc' = "rejected"
          /\ error' = Err("Error", "getInfoAsync failed")
          /\ pending' = {}
          /\ UNCHANGED <<i, calls, formData>>
    /\ UNCHANGED <<storeVars, hpPc, alert, images, response, result,
                   remoteVars, encodes, outcomes, preBatch, uploads, refresh,
                   filter, edit>>

\* api.post settles: axios rejects on a transport error, on its timeout and
\* on a non-2xx status; on 2xx the function returns response.data
mpPostDone ==
    /\ hpPc = "direct" /\ prPc = "mpPost"
    /\ pending' = {}
    /\ \/ /\ prPc' = "rejected"
          /\ error' \in {FetchRejection} \cup {StatusError(s) : s \in ErrorStatuses}
          /\ UNCHANGED <<response, result, remoteVars>>
       \/ LET r == Len(remoteReports) + 1
              body == MultipartBody(r, calls[1].files)
          IN /\ response' = [ok |-> TRUE, status |-> 200, body |-> body]
             /\ result' = body
             /\ remoteReports' = Append(remoteReports, Len(body.expenses))
             /\ remoteExpenses' = RowsOfNewReport(remoteExpenses, body.expenses)
             /\ prPc' = "resolved"
             /\ UNCHANGED error
    /\ UNCHANGED <<storeVars, hpPc, alert, images, i, encodes, calls,
                   outcomes, preBatch, uploads, screenVars>>

NextMultipart ==
    \/ mpCall
    \/ mpInfoDone
    \/ mpPostDone
    \/ directReturn

SpecMultipart == Init /\ [][NextMultipart]_vars

----------------------------------------------------------------------------
(* part_003: addExpense, updateExpense, deleteExpense; summary.tsx: summary;
   expenses.tsx: filter.  The functions of the store and the computations of
   the screens, applied to every list of expenses up to MaxExpenses. *)

ExpenseIds == {1, 2}
\* the amounts of the sample expenses; an update can give another one
Amounts == {1}

\* category and currency of the sample expenses; "" stands for a field that
\* is empty or absent (undefined, null and "" are all falsy)
Tags == { [category |-> "Meals", currency |-> "USD"],
          [category |-> "Other", currency |-> "EUR"],
          [category |-> "", currency |-> ""] }

SampleExpenses ==
    { [ id |-> k, report_id |-> 1, amount |-> a,
        category |-> t.category, currency |-> t.currency ] :
      k \in ExpenseIds, a \in Amounts, t \in Tags }

ExpenseLists == UNION { [1..n -> SampleExpenses] : n \in 0..MaxExpenses }

\* variant: the category as stored, without the fallback
CategoryOf_Raw(e) == e.category

\* const category = expense.category || "Other"
CategoryOf(e) == IF e.category = "" THEN "Other" ELSE e.category

\* const currency = expense.currency || "USD"
CurrencyOf(e) == IF e.currency = "" THEN "USD" ELSE e.currency

\* one of the two tables of the summary: the loop over expenses with the
\* group of the n-th expense given by keys[n]; Number(expense.amount) is the
\* amount itself, amounts are numbers
GroupTable(exps, keys) ==
    LET table[n \in 0..Len(exps)] ==
            IF n = 0 THEN << >>
            ELSE LET prev == table[n - 1]
                     key == keys[n]
                     start == IF key \in DOMAIN prev
                              THEN prev
                              ELSE prev @@ (key :> [count |-> 0, total |-> 0])
                 IN [start EXCEPT ![key] =
                        [ count |-> @.count + 1,
                          total |-> @.total + exps[n].amount ]]
    IN table[Len(exps)]

\* the summary of the summary screen
Summary(exps) ==
    [ byCategory |-> GroupTable(exps, [n \in DOMAIN exps |-> CategoryOf(exps[n])]),
      byCurrency |-> GroupTable(exps, [n \in DOMAIN exps |-> CurrencyOf(exps[n])]) ]

\* the filter of the expenses screen: null ("All") or a category
Filters == {Null, [category |-> "Meals"], [category |-> "Other"]}

\* { ...e, ...updates }
Spread(e, updates) ==
    [k \in DOMAIN e \cup DOMAIN updates |->
        IF k \in DOMAIN updates THEN updates[k] ELSE e[k]]

\* variant: the updates are merged into every expense
UpdateExpense_All(exps, id, updates) ==
    [n \in DOMAIN exps |-> Spread(exps[n], updates)]

\* state.expenses.map((e) => e.id === id ? { ...e, ...updates } : e)
UpdateExpense(exps, id, updates) ==
    [n \in DOMAIN exps |->
        IF exps[n].id = id THEN Spread(exps[n], updates) ELSE exps[n]]

\* variant: only the first expense with the id is removed
DeleteExpense_First(exps, id) ==
    IF \E n \in DOMAIN exps : exps[n].id = id
    THEN LET first == CHOOSE n \in DOMAIN exps :
                         /\ exps[n].id = id
                         /\ \A k \in 1..(n - 1) : exps[k].id # id
         IN Splice(exps, first)
    ELSE exps

\* state.expenses.filter((e) => e.id !== id)
DeleteExpense(exps, id) == SelectSeq(exps, LAMBDA e : e.id # id)

\* set(partial): the store after the fields of partial were replaced
SetStore(partial) ==
    LET s == Merge(StoreRec, partial)
    IN /\ currentReport' = s.currentReport
       /\ expenses' = s.expenses
       /\ isProcessing' = s.isProcessing
       /\ processingProgress' = s.processingProgress
       /\ selectedImages' = s.selectedImages

\* the updates the store's updateExpense is called with
Updates == { [amount |-> 3], [category |-> "Other", currency |-> "EUR"] }

\* an id no sample expense has
AbsentId == 3

\* updateExpense(id, updates), called by any caller
storeUpdateExpense ==
    /\ \E id \in ExpenseIds \cup {AbsentId}, updates \in Updates :
          SetStore([expenses |-> UpdateExpense(expenses, id, updates)])
    /\ UNCHANGED <<hpPc, alert, frameVars, pending, remoteVars, histVars,
                   preBatch, uploads, screenVars>>

\* deleteExpense(id), called by any caller
storeDeleteExpense ==
    /\ \E id \in ExpenseIds \cup {AbsentId} :
          SetStore([expenses |-> DeleteExpense(expenses, id)])
    /\ UNCHANGED <<hpPc, alert, frameVars, pending, remoteVars, histVars,
                   preBatch, uploads, screenVars>>

\* filter ? expenses.filter((e) => e.category === filter) : expenses
FilteredExpenses(exps, f) ==
    IF f = Null THEN exps
    ELSE SelectSeq(exps, LAMBDA e : e.category = f.category)

\* expenses.reduce((sum, e) => sum + Number(e.amount), 0)
Total(exps) ==
    LET sum[n \in 0..Len(exps)] ==
            IF n = 0 THEN 0 ELSE sum[n - 1] + exps[n].amount
    IN sum[Len(exps)]

\* the total bar: "Total (count expenses)" and the amount next to it
TotalBar(exps, f) ==
    [ count |-> Len(FilteredExpenses(exps, f)), amount |-> Total(exps) ]

\* addExpense: (expense) => set({expenses: [...state.expenses, expense]})
storeAddExpense ==
    /\ Len(expenses) < MaxExpenses
    /\ \E e \in SampleExpenses : expenses' = Append(expenses, e)
    /\ UNCHANGED <<currentReport, isProcessing, processingProgress,
                   selectedImages, hpPc, alert, frameVars, pending,
                   remoteVars, histVars, preBatch, uploads, screenVars>>

\* the user selects a category tab, or "All"; the tabs are rendered only
\* when expenses is non-empty
setFilter ==
    /\ expenses # <<>>
    /\ \E f \in Filters : filter' = f
    /\ UNCHANGED <<storeVars, hpPc, alert, frameVars, pending, remoteVars,
                   histVars, preBatch, uploads, refresh, edit, formData>>

InitLists ==
    /\ expenses \in ExpenseLists
    /\ currentReport \in
          {Null, [id |-> 1, name |-> reportName, total_expenses |-> Len(expenses)]}
    /\ filter = Null
    /\ InitIdle
    /\ uploads = 0
    /\ remoteExpenses = [kept |-> FALSE, rows |-> <<>>]

NextLists ==
    \/ storeAddExpense
    \/ storeUpdateExpense
    \/ storeDeleteExpense
    \/ setFilter

SpecLists == InitLists /\ [][NextLists]_vars

----------------------------------------------------------------------------
(* expenses.tsx: handleDelete; receipt/[id].tsx: handleSave, handleDelete;
   api.ts: updateExpense, deleteExpense.  The two handleDelete differ only
   in the text of the dialog and in the router.back() of the detail screen.
   One delete or save is in flight at a time. *)

\* the service's tables after DELETE /reports/expenses/{id} was accepted
RowDeleted(rem, id) ==
    IF rem.kept
    THEN [rem EXCEPT !.rows = [r \in DOMAIN @ |-> DeleteExpense(@[r], id)]]
    ELSE rem

\* the service's tables after PATCH /reports/expenses/{id} was accepted
RowUpdated(rem, id, updates) ==
    IF rem.kept
    THEN [rem EXCEPT !.rows = [r \in DOMAIN @ |-> UpdateExpense(@[r], id, updates)]]
    ELSE rem

\* the updates handleSave builds from the form (merchant, description and
\* city are left out)
FormUpdates == { [amount |-> 2, category |-> "Meals"] }

\* variant: the expense is removed from the store whatever the remote call
\* answered
AfterDelete_Optimistic(exps, id, ok) == DeleteExpense(exps, id)

\* try { await deleteExpenseApi(expense.id); deleteExpense(expense.id) }
\* catch { ... }: the expenses of the store after the remote call settled
AfterDelete(exps, id, ok) == IF ok THEN DeleteExpense(exps, id) ELSE exps

\* variant: the edit is shown in the store whatever the remote call answered
AfterSave_Optimistic(exps, id, updates, ok) == UpdateExpense(exps, id, updates)

\* try { await updateExpenseApi(expense.id, updates);
\* updateExpense(expense.id, updates) } catch { ... }
AfterSave(exps, id, updates, ok) ==
    IF ok THEN UpdateExpense(exps, id, updates) ELSE exps

\* the delete button of an expense card or of the detail screen: the
\* confirmation dialog opens
handleDelete ==
    /\ Touchable
    /\ edit = Null
    /\ \E n \in DOMAIN expenses :
          alert' = [title |-> "Delete Expense", id |-> expenses[n].id]
    /\ UNCHANGED <<storeVars, hpPc, frameVars, pending, remoteVars,
                   histVars, preBatch, uploads, refresh, filter, edit, formData>>

\* "Delete" is pressed in the dialog: deleteExpenseApi(expense.id) is called
\* ("Cancel" closes the dialog: dismissAlert)
deleteConfirmed ==
    /\ Quiescent
    /\ alert.title = "Delete Expense"
    /\ edit' = [kind |-> "delete", id |-> alert.id, pc |-> "fetch"]
    /\ alert' = NoAlert
    /\ UNCHANGED <<storeVars, hpPc, frameVars, pending, remoteVars,
                   histVars, preBatch, uploads, refresh, filter, formData>>

\* the fetch of deleteExpense settles.  2xx: the service has removed the
\* row, and deleteExpense(expense.id) of the store runs.  A rejection or
\* another status: deleteExpense of api.ts throws, Alert.alert("Error", ...)
deleteDone ==
    /\ Quiescent
    /\ edit # Null /\ edit.kind = "delete"
    /\ \E ok \in BOOLEAN :
          /\ expenses' = AfterDelete(expenses, edit.id, ok)
          /\ IF ok
             THEN /\ remoteExpenses' = RowDeleted(remoteExpenses, edit.id)
                  /\ UNCHANGED alert
             ELSE /\ UNCHANGED remoteExpenses
                  /\ alert' = [title |-> "Error",
                               message |-> "Failed to delete expense"]
    /\ edit' = Null
    /\ UNCHANGED <<currentReport, isProcessing, processingProgress,
                   selectedImages, hpPc, frameVars, pending, remoteReports,
                   histVars, preBatch, uploads, refresh, filter, formData>>

\* the Save button of the detail screen: if (!hasChanges) return;
\* updateExpenseApi(expense.id, updates) is called
handleSave ==
    /\ Touchable
    /\ edit = Null
    /\ \E n \in DOMAIN expenses, updates \in FormUpdates :
          /\ Spread(expenses[n], updates) # expenses[n]
          /\ edit' = [kind |-> "save", id |-> expenses[n].id,
                      updates |-> updates, pc |-> "fetch"]
    /\ UNCHANGED <<storeVars, hpPc, alert, frameVars, pending, remoteVars,
                   histVars, preBatch, uploads, refresh, filter, formData>>

\* the fetch of updateExpense settles.  2xx: the service has stored the
\* updates, and the answer is handed to response.json().  A rejection or
\* another status: updateExpense of api.ts throws
saveFetchDone ==
    /\ Quiescent
    /\ edit # Null /\ edit.kind = "save" /\ edit.pc = "fetch"
    /\ \E ok \in BOOLEAN :
          /\ IF ok
             THEN /\ remoteExpenses' =
                        RowUpdated(remoteExpenses, edit.id, edit.updates)
                  /\ edit' = [edit EXCEPT !.pc = "json"]
                  /\ UNCHANGED alert
             ELSE /\ UNCHANGED remoteExpenses
                  /\ edit' = Null
                  /\ alert' = [title |-> "Error",
                               message |-> "Failed to save changes"]
    /\ UNCHANGED <<currentReport, expenses, isProcessing, processingProgress,
                   selectedImages, hpPc, frameVars, pending, remoteReports,
                   histVars, preBatch, uploads, refresh, filter, formData>>

\* response.json() settles: updateExpense(expense.id, updates) of the store
\* and Alert.alert("Saved", ...), or the catch branch
saveJsonDone ==
    /\ Quiescent
    /\ edit # Null /\ edit.kind = "save" /\ edit.pc = "json"
    /\ \E ok \in BOOLEAN :
          /\ expenses' = AfterSave(expenses, edit.id, edit.updates, ok)
          /\ alert' = IF ok
                      THEN [title |-> "Saved",
                            message |-> "Expense updated successfully"]
                      ELSE [title |-> "Error",
                            message |-> "Failed to save changes"]
    /\ edit' = Null
    /\ UNCHANGED <<currentReport, isProcessing, processingProgress,
                   selectedImages, hpPc, frameVars, pending, remoteVars,
                   histVars, preBatch, uploads, refresh, filter, formData>>

NextEdit ==
    \/ Next
    \/ handleDelete
    \/ deleteConfirmed
    \/ deleteDone
    \/ handleSave
    \/ saveFetchDone
    \/ saveJsonDone

SpecEdit == InitRemote /\ [][NextEdit]_vars

----------------------------------------------------------------------------
(* Properties of processReceipts *)

N == Len(images)

FailureKinds == {"encodeErr", "transportErr", "non2xx", "decodeErr"}
LoopPcs == {"encNext", "fetchNext", "jsonNext"}

\* position of image img in the invocation's images
Pos(img) == CHOOSE k \in 1..N : images[k] = img

NoDup(s) == \A a, b \in DOMAIN s : a # b => s[a] # s[b]

\* the expenses the service returned, in the order of the images
OkExpenses(outs) ==
    LET ok == SelectSeq(outs, LAMBDA o : o.kind = "ok")
    IN [j \in 1..Len(ok) |-> ok[j].expense]

\* the file names of the images that did not yield an expense, in the order
\* of the images
FailedNames(outs) ==
    LET ko == SelectSeq(outs, LAMBDA o : o.kind # "ok")
    IN [j \in 1..Len(ko) |-> FileName(ko[j].img)]

\* C1: per-image fault isolation.  Once the batch-creation call has
\* succeeded (the result exists), a failure of an image k > 1 neither stops
\* the loop nor rejects processReceipts: the invocation is either in the
\* loop body of the next image, all earlier images having an outcome, or it
\* has resolved after every image 1..N was attempted, in order.
C1_FaultIsolation ==
    result # Null =>
        /\ prPc \in LoopPcs \cup {"resolved"}
        /\ prPc \in LoopPcs =>
              /\ i \in 2..N
              /\ Len(outcomes) = i - 1
              /\ encodes = SubSeq(images, 1, i)
        /\ prPc = "resolved" =>
              /\ Len(outcomes) = N
              /\ encodes = images

\* a batch of three resolved although its second image failed, and the
\* third image was processed after the failure
C1_Witness ==
    /\ prPc = "resolved" /\ N = 3
    /\ outcomes[2].kind \in FailureKinds
    /\ outcomes[3].kind = "ok"

\* C2: a failure of the first image is fatal.  If the encoding of image 1
\* fails, or the batch-creation call fails with a transport error or a
\* non-2xx status, processReceipts rejects with an error, has no result,
\* and has issued no single-append call and attempted no other image.
C2_FirstFailureFatal ==
    (Len(outcomes) >= 1 /\ outcomes[1].kind \in {"encodeErr", "transportErr", "non2xx"}) =>
        /\ prPc = "rejected"
        /\ error # Null
        /\ result = Null
        /\ \A c \in DOMAIN calls : calls[c].kind # "append"
        /\ encodes = <<images[1]>>
        /\ Len(outcomes) = 1

\* a batch of three rejected on the non-2xx answer to its first image
C2_Witness ==
    /\ prPc = "rejected" /\ N = 3
    /\ outcomes[1].kind = "non2xx"
    /\ Len(calls) = 1

\* C3: every result processReceipts resolves with has
\* summary.total = |expenses| + |failed_receipts| = number of images passed.
C3_TotalIsImages ==
    prPc = "resolved" =>
        /\ result.summary.total = Len(result.expenses) + Len(result.failed_receipts)
        /\ result.summary.total = N

\* a resolved batch of three with both lists non-empty
C3_Witness ==
    /\ prPc = "resolved" /\ N = 3
    /\ Len(result.expenses) >= 1
    /\ Len(result.failed_receipts) >= 1

\* C4: summary.total = summary.successful + summary.failed for the result
\* under construction in every state, hence after each loop iteration, and
\* for the result processReceipts resolves with.
C4_TotalIsSum ==
    result # Null =>
        result.summary.total = result.summary.successful + result.summary.failed

\* between two iterations: the second image has failed, the third is next
C4_Witness ==
    /\ prPc = "encNext" /\ i = 3
    /\ result.summary.failed = 1
    /\ result.summary.successful = 1

AllOk == \A k \in DOMAIN outcomes : outcomes[k].kind = "ok"

\* C5: when every call succeeds, processReceipts resolves with
\* summary = {total: N, successful: N, failed: 0}, N expenses, no failed
\* receipt, and expenses[k] is the expense returned for images[k].
C5_AllSucceed ==
    (prPc = "resolved" /\ AllOk) =>
        /\ result.summary = [total |-> N, successful |-> N, failed |-> 0]
        /\ Len(result.expenses) = N
        /\ result.failed_receipts = <<>>
        /\ Len(outcomes) = N
        /\ \A k \in 1..N :
              /\ result.expenses[k] = outcomes[k].expense
              /\ result.expenses[k].receipt_path = RequestFilename(images[k])
              /\ result.expenses[k].report_id = result.report_id

\* a batch of three resolved with every call successful
C5_Witness ==
    /\ prPc = "resolved" /\ N = 3
    /\ AllOk

\* image k is the only image of the batch that failed
OnlyFailure(k) ==
    /\ Len(outcomes) = N
    /\ outcomes[k].kind \in FailureKinds
    /\ \A j \in 1..N : j # k => outcomes[j].kind = "ok"

\* C6: when image k > 1 fails and all others succeed, processReceipts
\* resolves with summary = {total: N, successful: N-1, failed: 1}, exactly
\* one failed receipt, named images[k].fileName, and the N-1 returned
\* expenses in the order of the images.
C6_OneFailure ==
    prPc = "resolved" =>
        \A k \in 2..N : OnlyFailure(k) =>
            /\ result.summary = [total |-> N, successful |-> N - 1, failed |-> 1]
            /\ Len(result.failed_receipts) = 1
            /\ result.failed_receipts[1].filename = FileName(images[k])
            /\ result.expenses = OkExpenses(outcomes)
            /\ Len(result.expenses) = N - 1

\* A, B, C: B's call fails on the transport, A and C succeed
C6_Witness ==
    /\ prPc = "resolved" /\ N = 3
    /\ OnlyFailure(2)
    /\ outcomes[2].kind = "transportErr"

\* C7: order preservation.  Whatever the pattern of failures, the resolved
\* result lists the returned expenses in the order of the images and the
\* failed images in the order of the images, and every image is in exactly
\* one of the two lists.
C7_OrderPreserved ==
    prPc = "resolved" =>
        /\ Len(outcomes) = N
        /\ \A k \in 1..N : outcomes[k].img = images[k]
        /\ result.expenses = OkExpenses(outcomes)
        /\ [j \in 1..Len(result.failed_receipts) |->
               result.failed_receipts[j].filename] = FailedNames(outcomes)
        /\ \A k \in 1..N :
              (\E j \in DOMAIN result.expenses :
                  result.expenses[j].receipt_path = RequestFilename(images[k]))
              # (\E j \in DOMAIN result.failed_receipts :
                  result.failed_receipts[j].filename = FileName(images[k]))

\* three images: the service reported the first as failed, the second
\* succeeded, the third failed: two failed receipts around one expense
C7_Witness ==
    /\ prPc = "resolved" /\ N = 3
    /\ outcomes[1].kind = "failedBody"
    /\ outcomes[2].kind = "ok"
    /\ outcomes[3].kind = "non2xx"
    /\ Len(result.failed_receipts) = 2

\* the remote calls (request or body transfer) that have not completed
InFlight == {p \in pending : p.op \in {"fetch", "body"}}

\* C8: at most one remote call is in flight at any moment, and nothing else
\* of the invocation is pending beside it; the call for an image is issued
\* only when every earlier image has its outcome (its encoding and its call
\* have completed), and an append call only when the batch-creation
\* response has been received.
C8_OneInFlight ==
    /\ Cardinality(InFlight) <= 1
    /\ Cardinality(pending) <= 1
    /\ \A p \in pending : p.img = images[i]
    /\ \A c \in DOMAIN calls :
          /\ Len(outcomes) >= Pos(calls[c].img) - 1
          /\ calls[c].kind = "append" => (result # Null /\ response # Null)
    /\ InFlight # {} => Len(outcomes) = i - 1

\* the append call for the third image is in flight
C8_Witness ==
    /\ prPc = "fetchNext" /\ i = 3
    /\ InFlight = {FetchOp(images[3])}
    /\ Len(calls) = 3

\* images recorded as failed in the result under construction
FailedImages ==
    {outcomes[k].img : k \in {j \in DOMAIN outcomes : outcomes[j].kind # "ok"}}

\* C9: no retry.  Within one invocation every image is encoded at most once
\* and submitted at most once; an image recorded in failed_receipts has no
\* operation pending, and no expense in the result stems from it.
C9_NoRetry ==
    /\ NoDup(encodes)
    /\ NoDup([c \in DOMAIN calls |-> calls[c].img])
    /\ Len(encodes) <= N /\ Len(calls) <= N
    /\ \A img \in FailedImages :
          /\ \A p \in pending : p.img # img
          /\ result # Null =>
                /\ \E j \in DOMAIN result.failed_receipts :
                      result.failed_receipts[j].filename = FileName(img)
                /\ \A j \in DOMAIN result.expenses :
                      result.expenses[j].receipt_path # RequestFilename(img)

\* the second image failed and is in failed_receipts; the third image is
\* being processed after it
C9_Witness ==
    /\ prPc = "jsonNext" /\ i = 3
    /\ outcomes[2].kind = "transportErr"
    /\ Len(result.failed_receipts) = 1

----------------------------------------------------------------------------
(* Properties of handleProcess *)

\* C10: compute then commit.  While a batch is running, the store's
\* currentReport and expenses are either both the values from before the
\* batch or both the values of the batch's result.
C10_ComputeThenCommit ==
    hpPc # "idle" =>
        \/ /\ currentReport = preBatch.currentReport
           /\ expenses = preBatch.expenses
        \/ /\ result # Null
           /\ currentReport = ReportOf(result)
           /\ expenses = result.expenses

\* C11: no partial commit on a fatal failure.  When the first image failed
\* (processReceipts rejected), handleProcess finishes with an error alert on
\* screen and with currentReport, expenses, isProcessing and
\* processingProgress as they were before it was invoked, and its last step
\* does not touch selectedImages.
C11_NoMutationOnFatal ==
    [][ (hpPc = "finally" /\ prPc = "rejected") =>
            /\ alert.title = "Error"
            /\ currentReport' = preBatch.currentReport
            /\ expenses' = preBatch.expenses
            /\ isProcessing' = preBatch.isProcessing
            /\ processingProgress' = preBatch.processingProgress
            /\ selectedImages' = selectedImages ]_vars

\* C12: with an empty selection no network call is issued.  handleProcess
\* goes past its guard only with a non-empty selection, so it never calls
\* processReceipts with an empty sequence; its guard branch shows the
\* "No Images" alert and changes neither the store nor the invocation state;
\* processReceipts called with an empty sequence is rejected at once, with no
\* encoding started, no call issued and nothing in flight.
C12_EmptyNoCall ==
    /\ [](hpPc \notin {"idle", "direct"} => preBatch.selectedImages # <<>>)
    /\ [](hpPc \in {"await", "setExpenses", "clearSelectedImages", "alert",
                    "finally"} => images # <<>>)
    /\ []((prPc # "idle" /\ images = <<>>) =>
             /\ prPc = "rejected"
             /\ encodes = <<>> /\ calls = <<>> /\ pending = {}
             /\ hpPc = "direct")
    /\ [][ (alert' # alert /\ alert'.title = "No Images") =>
             /\ selectedImages = <<>>
             /\ UNCHANGED <<storeVars, hpPc, frameVars, pending, histVars,
                            remoteReports>> ]_vars

\* the guard branch has shown its alert, and a direct call with the empty
\* sequence has been rejected
C12_Witness ==
    /\ alert.title = "No Images"
    /\ hpPc = "direct" /\ images = <<>> /\ prPc = "rejected"
    /\ remoteReports # <<>>

BatchCalls == {k \in DOMAIN calls : calls[k].kind = "batch"}
AppendCalls == {k \in DOMAIN calls : calls[k].kind = "append"}

\* the encoding of the first image has succeeded
FirstEncoded ==
    /\ prPc \notin {"idle", "encFirst"}
    /\ images # <<>>
    /\ ~(outcomes # <<>> /\ outcomes[1].kind = "encodeErr")

\* C13 (as stated): every processReceipts invocation issues exactly one
\* batch-creation call, so a settled invocation has issued exactly one.
C13_ExactlyOneBatchCall ==
    prPc \in {"resolved", "rejected"} => Cardinality(BatchCalls) = 1

\* C13 (amended): re-submission is additive.  An invocation issues at most
\* one batch-creation call, and exactly one once the first image has been
\* encoded (in particular whenever it resolves); every single-append call
\* carries the report_id returned by this invocation's batch-creation call,
\* which is a report that did not exist when the invocation started and is
\* not the report of the previous invocation; every expense of the result
\* belongs to that report, and the reports that existed before keep their
\* rows.
C13_Additive ==
    hpPc # "idle" =>
        /\ Cardinality(BatchCalls) <= 1
        /\ FirstEncoded => Cardinality(BatchCalls) = 1
        /\ prPc = "resolved" => Cardinality(BatchCalls) = 1
        /\ \A k \in AppendCalls :
              /\ result # Null
              /\ calls[k].report_id = result.report_id
        /\ result # Null =>
              /\ result.report_id \in
                    (Len(preBatch.reports) + 1)..Len(remoteReports)
              /\ preBatch.currentReport # Null =>
                    result.report_id # preBatch.currentReport.id
              /\ \A k \in DOMAIN result.expenses :
                    result.expenses[k].report_id = result.report_id
        /\ \A r \in DOMAIN preBatch.reports :
              remoteReports[r] = preBatch.reports[r]

\* a second invocation, made while the first one's report is the current
\* report, has resolved after a single-append call that added a row
C13_Witness ==
    /\ hpPc = "await" /\ prPc = "resolved"
    /\ preBatch.currentReport # Null
    /\ AppendCalls # {}
    /\ Len(result.expenses) = 2
    /\ remoteReports = <<1, 2>>

\* C14: remote side effects agree with the client's bookkeeping.  After a
\* resolved invocation the remote store holds exactly Len(result.expenses)
\* rows for the invocation's report, and after a rejected invocation no
\* report has been created.
C14_RemoteAgrees ==
    /\ (hpPc # "idle" /\ prPc = "resolved") =>
          remoteReports[result.report_id] = Len(result.expenses)
    /\ (hpPc # "idle" /\ prPc = "rejected") =>
          Len(remoteReports) = Len(preBatch.reports)

\* C15: whenever processReceipts resolves, handleProcess presents exactly one
\* result alert.  No alert is on screen from the call until the alert step;
\* after it the alert on screen carries summary.successful, which is the
\* number of images that succeeded; when failed_receipts is empty nothing
\* failed and that number is the total; when failed_receipts is non-empty
\* the alert also carries summary.total and summary.failed and has one line
\* per entry of failed_receipts, in order, made of the entry's filename and
\* its error string.
C15_ResultAlert ==
    /\ hpPc \in {"setProgress", "call", "await", "setExpenses",
                 "clearSelectedImages", "alert"} => alert = NoAlert
    /\ (hpPc = "finally" /\ prPc = "resolved") =>
          /\ alert.title \in {"Success!", "Processing Complete"}
          /\ alert.successful = result.summary.successful
          /\ alert.successful = Len(OkExpenses(outcomes))
          /\ IF result.failed_receipts = <<>>
             THEN /\ alert.title = "Success!"
                  /\ result.summary.failed = 0
                  /\ result.summary.total = alert.successful
             ELSE /\ alert.title = "Processing Complete"
                  /\ alert.total = result.summary.total
                  /\ alert.failed = result.summary.failed
                  /\ Len(alert.details) = Len(result.failed_receipts)
                  /\ \A k \in DOMAIN result.failed_receipts :
                        alert.details[k] =
                           result.failed_receipts[k].filename \o ": " \o
                           result.failed_receipts[k].error

\* the alert of a batch of three in which the second image could not be
\* encoded and the third was refused by the service
C15_Witness ==
    /\ hpPc = "finally" /\ prPc = "resolved"
    /\ alert.title = "Processing Complete"
    /\ alert.successful = 1 /\ alert.failed = 2 /\ alert.total = 3
    /\ alert.details = << "B.jpg: Error: FileReader error",
                          "C.jpg: Processing failed" >>

RunningPcs == {"encFirst", "fetchFirst", "textFirst", "jsonFirst"} \cup LoopPcs

\* C16: processReceipts is a pure producer.  Its invocation, each of its
\* steps and its settlement leave every field of the store (and the alert)
\* unchanged; while it runs under handleProcess, currentReport, expenses and
\* the processing fields are as handleProcess left them before the call; and
\* currentReport and expenses are only ever written by handleProcess, after
\* processReceipts has resolved, with the values of the result.
C16_PureProducer ==
    /\ [][ (frameVars' # frameVars /\ prPc' # "idle") =>
              UNCHANGED <<storeVars, alert>> ]_vars
    /\ []( (hpPc = "await" /\ prPc \in RunningPcs) =>
              /\ currentReport = preBatch.currentReport
              /\ expenses = preBatch.expenses
              /\ isProcessing
              /\ processingProgress = [current |-> 0, total |-> Len(images)] )
    /\ [][ (currentReport' # currentReport \/ expenses' # expenses) =>
              /\ prPc = "resolved" /\ prPc' = "resolved"
              /\ hpPc \in {"await", "setExpenses"}
              /\ currentReport' \in {currentReport, ReportOf(result)}
              /\ expenses' \in {expenses, result.expenses} ]_vars

\* a second batch has produced two expenses and is working on its third
\* image, while the store still holds the report and the expense of the
\* first batch
C16_Witness ==
    /\ hpPc = "await" /\ prPc = "fetchNext" /\ i = 3
    /\ Len(result.expenses) = 2
    /\ currentReport # Null /\ currentReport.id # result.report_id
    /\ Len(expenses) = 1 /\ expenses[1].report_id # result.report_id

\* C17: after a 2xx batch-creation call and before any remaining image is
\* processed, the result under construction is summary = {total: 1,
\* successful: 1, failed: 0}, expenses = [the first expense],
\* failed_receipts = [], whatever the body of the 2xx response contains.
C17_InitialResult ==
    (result # Null /\ Len(outcomes) = 1) =>
        /\ result.summary = [total |-> 1, successful |-> 1, failed |-> 0]
        /\ Len(result.expenses) = 1
        /\ result.expenses[1].receipt_path = RequestFilename(images[1])
        /\ result.failed_receipts = <<>>

\* the error text the loop records for a failure of each kind
ErrorTexts(kind) ==
    CASE kind = "encodeErr" -> {String(e) : e \in UriRejections}
      [] kind = "transportErr" -> {String(FetchRejection)}
      [] kind = "decodeErr" -> {String(JsonRejection)}
      [] kind = "non2xx" -> {"Processing failed"}

\* C18: the bookkeeping step of each image k > 1.  On success exactly one
\* expense is appended to expenses, summary.successful and summary.total
\* grow by 1, and failed_receipts and summary.failed are unchanged.  On a
\* failure of any kind (encoding, transport, decoding, non-2xx) exactly one
\* {filename, error} entry is appended to failed_receipts, summary.failed and
\* summary.total grow by 1, and expenses and summary.successful are
\* unchanged; after an encoding error no call has been issued for the image.
C18_Bookkeeping ==
    [][ (Len(outcomes) >= 1 /\ Len(outcomes') = Len(outcomes) + 1) =>
          LET o == outcomes'[Len(outcomes')]
              old == result
              new == result'
          IN /\ o.img = images[i] /\ i > 1
             /\ new.summary.total = old.summary.total + 1
             /\ IF o.kind = "ok"
                THEN /\ new.expenses = Append(old.expenses, o.expense)
                     /\ new.summary.successful = old.summary.successful + 1
                     /\ new.failed_receipts = old.failed_receipts
                     /\ new.summary.failed = old.summary.failed
                ELSE /\ o.kind \in FailureKinds
                     /\ \E err \in ErrorTexts(o.kind) :
                           new.failed_receipts =
                              Append(old.failed_receipts,
                                     [filename |-> FileName(o.img), error |-> err])
                     /\ new.summary.failed = old.summary.failed + 1
                     /\ new.expenses = old.expenses
                     /\ new.summary.successful = old.summary.successful
             /\ o.kind = "encodeErr" =>
                   /\ calls' = calls
                   /\ \A k \in DOMAIN calls : calls[k].img # o.img ]_vars

\* a batch of three has resolved: the second image could not be encoded, so
\* only two calls were issued, and the third image succeeded
C18_Witness ==
    /\ prPc = "resolved" /\ Len(images) = 3
    /\ outcomes[2].kind = "encodeErr" /\ outcomes[3].kind = "ok"
    /\ Len(calls) = 2
    /\ result.summary = [total |-> 3, successful |-> 2, failed |-> 1]
    /\ Len(result.expenses) = 2 /\ Len(result.failed_receipts) = 1

Settled == prPc \in {"resolved", "rejected"}

\* C19: termination.  Provided every encoding and every remote call
\* eventually completes, every processReceipts invocation eventually
\* settles.  It is rejected only on the first image, before any
\* single-append call; it resolves after exactly one batch-creation call and
\* at most N - 1 single-append calls.  An invocation that has not settled is
\* at one of its awaits with the awaited operation in flight: there is no
\* state in which it has stopped between images.
C19_Termination ==
    /\ (prPc \in RunningPcs) ~> Settled
    /\ [](prPc \in {"idle"} \cup RunningPcs \cup {"resolved", "rejected"})
    /\ [](prPc \in RunningPcs => (Cardinality(pending) = 1 /\ hpPc = "await"))
    /\ [](prPc = "rejected" =>
             /\ Len(outcomes) = 1 /\ outcomes[1].kind \in FailureKinds
             /\ AppendCalls = {})
    /\ [](prPc = "resolved" =>
             /\ Len(outcomes) = N
             /\ Cardinality(BatchCalls) = 1
             /\ Cardinality(AppendCalls) <= N - 1)

\* a batch of three has resolved although the call for its second image
\* failed in transport
C19_Witness ==
    /\ prPc = "resolved" /\ N = 3
    /\ outcomes[2].kind = "transportErr"
    /\ Cardinality(AppendCalls) = 2

\* C20: reset() returns the whole store to its initial state from any
\* reachable state: currentReport null, expenses empty, isProcessing false,
\* processingProgress {current: 0, total: 0}, selectedImages empty; applying
\* it twice gives the same state as applying it once; and the Clear All
\* handler leaves the store in exactly that state.
C20_Reset ==
    /\ [](LET s == Reset(StoreRec)
          IN /\ s.currentReport = Null
             /\ s.expenses = <<>>
             /\ s.isProcessing = FALSE
             /\ s.processingProgress = [current |-> 0, total |-> 0]
             /\ s.selectedImages = <<>>
             /\ DOMAIN s = DOMAIN StoreRec
             /\ Reset(s) = s)
    /\ [][ (alert' # alert /\ alert'.title = "Cleared") =>
             /\ currentReport' = Null
             /\ expenses' = <<>>
             /\ isProcessing' = FALSE
             /\ processingProgress' = [current |-> 0, total |-> 0]
             /\ selectedImages' = <<>>
             /\ UNCHANGED <<hpPc, frameVars, pending, remoteReports>> ]_vars

\* the store has been reset in the middle of a second batch: every field is
\* initial although handleProcess is still awaiting processReceipts
C20_Witness ==
    /\ alert.title = "Cleared"
    /\ hpPc = "await" /\ prPc = "fetchNext"
    /\ preBatch.expenses # <<>> /\ preBatch.selectedImages # <<>>
    /\ StoreRec = [ currentReport |-> Null, expenses |-> <<>>,
                    isProcessing |-> FALSE,
                    processingProgress |-> [current |-> 0, total |-> 0],
                    selectedImages |-> <<>> ]

RECURSIVE SumOver(_, _)
\* the sum of f[x] over the finite set S
SumOver(f, S) ==
    IF S = {} THEN 0
    ELSE LET x == CHOOSE y \in S : TRUE IN f[x] + SumOver(f, S \ {x})

AmountOf(exps) == [n \in DOMAIN exps |-> exps[n].amount]
CountsOf(table) == [g \in DOMAIN table |-> table[g].count]
TotalsOf(table) == [g \in DOMAIN table |-> table[g].total]

\* C21: summary aggregation.  For every list of expenses the per-category
\* counts sum to the number of expenses and so do the per-currency counts;
\* the per-category totals and the per-currency totals both sum to the sum of
\* all amounts; each group holds exactly the expenses of its category (or
\* currency), so every expense is counted in exactly one group of each
\* table; an expense with no category is grouped under "Other" and one with
\* no currency under "USD".
C21_Summary ==
    LET s == Summary(expenses)
        all == SumOver(AmountOf(expenses), DOMAIN expenses)
        InCat(g) == {n \in DOMAIN expenses :
                        IF expenses[n].category = "" THEN g = "Other"
                        ELSE g = expenses[n].category}
        InCur(g) == {n \in DOMAIN expenses :
                        IF expenses[n].currency = "" THEN g = "USD"
                        ELSE g = expenses[n].currency}
    IN /\ SumOver(CountsOf(s.byCategory), DOMAIN s.byCategory) = Len(expenses)
       /\ SumOver(CountsOf(s.byCurrency), DOMAIN s.byCurrency) = Len(expenses)
       /\ SumOver(TotalsOf(s.byCategory), DOMAIN s.byCategory) = all
       /\ SumOver(TotalsOf(s.byCurrency), DOMAIN s.byCurrency) = all
       /\ "" \notin DOMAIN s.byCategory /\ "" \notin DOMAIN s.byCurrency
       /\ \A g \in DOMAIN s.byCategory :
             /\ InCat(g) # {}
             /\ s.byCategory[g].count = Cardinality(InCat(g))
             /\ s.byCategory[g].total = SumOver(AmountOf(expenses), InCat(g))
       /\ \A g \in DOMAIN s.byCurrency :
             /\ InCur(g) # {}
             /\ s.byCurrency[g].count = Cardinality(InCur(g))
             /\ s.byCurrency[g].total = SumOver(AmountOf(expenses), InCur(g))
       /\ \A n \in DOMAIN expenses :
             /\ \E g \in DOMAIN s.byCategory : n \in InCat(g)
             /\ \E g \in DOMAIN s.byCurrency : n \in InCur(g)

\* three expenses: one without category and currency, one stored as
\* "Other"/"EUR", one as "Meals"/"USD"; the first shares its category group
\* with the second and its currency group with the third
C21_Witness ==
    /\ Len(expenses) = 3
    /\ expenses[1].category = "" /\ expenses[1].currency = ""
    /\ expenses[2].category = "Other" /\ expenses[2].currency = "EUR"
    /\ expenses[3].category = "Meals" /\ expenses[3].currency = "USD"
    /\ Summary(expenses).byCategory["Other"].count = 2
    /\ Summary(expenses).byCurrency["USD"].count = 2
    /\ Summary(expenses).byCurrency["EUR"].total = expenses[2].amount

\* C22: in the multipart variant every image passed in is accounted for.
\* Once the upload request has been issued, its file parts are the input
\* images, all of them and in input order; an image that is not in the
\* request has made the call reject.
C22_AllImagesAccounted ==
    (hpPc = "direct" /\ prPc \in {"mpPost", "resolved"}) =>
        /\ Len(calls[1].files) = Len(images)
        /\ \A n \in DOMAIN images : calls[1].files[n].img = images[n]

C24_ExpensesOfCurrentReport ==
    (Quiescent /\ currentReport # Null) =>
        \A n \in DOMAIN expenses : expenses[n].report_id = currentReport.id

\* C25: after reset() no batch and no refresh that was started before the
\* reset writes into currentReport or expenses.  A handleProcess whose
\* isProcessing is false has been overtaken by a reset (only reset and its
\* own finally clear the flag), and so has a refresh while currentReport is
\* null (refresh starts with a report, and only reset clears it): no step of
\* such a handler changes currentReport or expenses.
C25_NoStaleWrite ==
    /\ [][ (hpPc \in {"await", "setExpenses"} /\ ~isProcessing /\ hpPc' # hpPc) =>
             UNCHANGED <<currentReport, expenses>> ]_vars
    /\ [][ (refresh # Null /\ currentReport = Null /\ refresh' = Null) =>
             UNCHANGED <<currentReport, expenses>> ]_vars

\* C27: isProcessing stays true while the processReceipts that handleProcess
\* awaits is pending.
C27_StaysTrue ==
    (hpPc = "await" /\ prPc \notin {"resolved", "rejected"}) => isProcessing

\* the rows of all reports of the service
\* C26: edits are remote-first.  The step of a delete handler that changes
\* the store's expenses is deleteExpense(id) and leaves the service without
\* a row of that id; the step of a save handler that changes them is
\* updateExpense(id, updates) and every row of that id of the service has
\* the fields of updates; a handler that ends by showing the alert "Error" leaves
\* expenses unchanged; and every edited expense the store shows is a row of
\* the service.
C26_RemoteFirst ==
    /\ [][ (edit # Null /\ edit' = Null /\ expenses' # expenses
              /\ edit.kind = "delete") =>
             /\ expenses' = DeleteExpense(expenses, edit.id)
             /\ \A r \in DOMAIN remoteExpenses'.rows :
                   \A k \in DOMAIN remoteExpenses'.rows[r] :
                      remoteExpenses'.rows[r][k].id # edit.id ]_vars
    /\ [][ (edit # Null /\ edit' = Null /\ expenses' # expenses
              /\ edit.kind = "save") =>
             /\ expenses' = UpdateExpense(expenses, edit.id, edit.updates)
             /\ \A r \in DOMAIN remoteExpenses.rows :
                   \A k \in DOMAIN remoteExpenses.rows[r] :
                      LET row == remoteExpenses.rows[r][k]
                      IN row.id = edit.id =>
                            \A f \in DOMAIN edit.updates :
                               /\ f \in DOMAIN row
                               /\ row[f] = edit.updates[f] ]_vars
    /\ [][ (edit # Null /\ edit' = Null /\ alert' # alert
              /\ alert'.title = "Error") =>
             UNCHANGED expenses ]_vars
    /\ [](\A n \in DOMAIN expenses :
             "amount" \in DOMAIN expenses[n] =>
                \E r \in DOMAIN remoteExpenses.rows :
                   \E k \in DOMAIN remoteExpenses.rows[r] :
                      remoteExpenses.rows[r][k] = expenses[n])

\* a save was accepted and applied to the second expense, a delete of the
\* first was accepted and applied, and then a delete of the remaining
\* expense failed: the store still holds it
C26_Witness ==
    /\ alert = [title |-> "Error", message |-> "Failed to delete expense"]
    /\ edit = Null
    /\ Len(expenses) = 1
    /\ "amount" \in DOMAIN expenses[1] /\ expenses[1].amount = 2
    /\ currentReport # Null /\ currentReport.total_expenses = 2
    /\ Len(remoteExpenses.rows[currentReport.id]) = 1

\* C28: the store's updateExpense(id, updates) changes only the expenses
\* whose id equals id, giving them the fields of updates over their own, and
\* leaves the number and the order of the expenses and every other expense
\* unchanged; with an id that is not in the list it leaves expenses
\* unchanged; a step that updates expenses changes neither currentReport nor
\* selectedImages nor the processing fields.
C28_UpdateExpense ==
    /\ [](\A id \in ExpenseIds \cup {AbsentId}, updates \in Updates :
            LET new == UpdateExpense(expenses, id, updates)
            IN /\ Len(new) = Len(expenses)
               /\ \A n \in DOMAIN expenses :
                     IF expenses[n].id = id
                     THEN /\ new[n].id = id
                          /\ \A k \in DOMAIN updates : new[n][k] = updates[k]
                          /\ \A k \in DOMAIN expenses[n] \ DOMAIN updates :
                                new[n][k] = expenses[n][k]
                          /\ DOMAIN new[n] = DOMAIN expenses[n] \cup DOMAIN updates
                     ELSE new[n] = expenses[n]
               /\ (\A n \in DOMAIN expenses : expenses[n].id # id) =>
                     new = expenses)
    /\ [][ (\E id \in ExpenseIds \cup {AbsentId}, updates \in Updates :
               /\ expenses' # expenses
               /\ expenses' = UpdateExpense(expenses, id, updates)) =>
             UNCHANGED <<currentReport, selectedImages, isProcessing,
                         processingProgress>> ]_vars

\* three expenses of which the first and the third have id 1, after an
\* update of id 1 has given these two the amount 3 and left the second alone
C28_Witness ==
    /\ Len(expenses) = 3
    /\ expenses[1].id = 1 /\ expenses[2].id = 2 /\ expenses[3].id = 1
    /\ expenses[1].amount = 3 /\ expenses[2].amount = 1 /\ expenses[3].amount = 3

\* the indices of the expenses deleteExpense(id) keeps
Kept(exps, id) == {n \in DOMAIN exps : exps[n].id # id}

\* C29: the store's deleteExpense(id) removes exactly the expenses whose id
\* equals id and keeps all the others in their original relative order; a
\* second deleteExpense(id) changes nothing; with an id that is not in the
\* list it changes nothing; a step that deletes changes neither currentReport
\* (its total_expenses included) nor any other field of the store.
C29_DeleteExpense ==
    /\ [](\A id \in ExpenseIds \cup {AbsentId} :
            LET new == DeleteExpense(expenses, id)
                rank(n) == Cardinality({k \in Kept(expenses, id) : k <= n})
            IN /\ Len(new) = Cardinality(Kept(expenses, id))
               /\ \A n \in Kept(expenses, id) : new[rank(n)] = expenses[n]
               /\ \A j \in DOMAIN new : new[j].id # id
               /\ DeleteExpense(new, id) = new
               /\ (\A n \in DOMAIN expenses : expenses[n].id # id) =>
                     new = expenses)
    /\ [][ (\E id \in ExpenseIds \cup {AbsentId} :
               /\ expenses' # expenses
               /\ expenses' = DeleteExpense(expenses, id)) =>
             UNCHANGED <<currentReport, selectedImages, isProcessing,
                         processingProgress>> ]_vars

\* a report of three expenses from which both expenses with id 1 have been
\* deleted: one expense is left and total_expenses still says three
C29_Witness ==
    /\ currentReport # Null
    /\ currentReport.total_expenses = 3
    /\ Len(expenses) = 1 /\ expenses[1].id = 2

\* C30: the total bar of the expenses screen is self-consistent.  Whenever
\* it is shown (expenses is non-empty), for every selected filter, the amount
\* it shows is the sum of the amounts of the filtered expenses, which are
\* the expenses its label counts.
C30_TotalBar ==
    expenses # <<>> =>
        LET shown == FilteredExpenses(expenses, filter)
            bar == TotalBar(expenses, filter)
        IN /\ bar.count = Len(shown)
           /\ bar.amount = SumOver(AmountOf(shown), DOMAIN shown)

====
